---- MODULE Spec2Model ----
(***************************************************************************)
(* Direct-send transaction construction of the coinswap wallet             *)
(* (src/src/wallet/direct_send.rs): Wallet::spend_from_wallet and          *)
(* Wallet::spend_coins, with the wallet's internal address sequence, the   *)
(* chain-height source and the signer as collaborators.                    *)
(***************************************************************************)
EXTENDS Integers, Sequences, FiniteSets, TLC

(* ------------------------------ bounds --------------------------------- *)

\* longest coin list a caller passes
MaxCoins == 2
\* a call starts only while the wallet's internal address index is below this
MaxIndex == 2

(* ------------------------- program constants --------------------------- *)

P2PWPKH_WITNESS_SIZE == 107
P2WSH_MULTISIG_2OF2_WITNESS_SIZE == 222

\* bitcoin::Amount: satoshis per whole coin, used by Amount::to_btc
SAT_PER_BTC == 100000000
\* LockTime::from_height accepts heights strictly below this threshold
LOCK_TIME_THRESHOLD == 500000000
\* serialized script length of the wallet's internal (P2WPKH) addresses
INTERNAL_SPK_LEN == 22

(* ------------------------------ data ----------------------------------- *)

Networks == {"Bitcoin", "Testnet", "Signet", "Regtest"}

EligibleKinds == {"SeedCoin", "SwapCoin"}
SkippedKinds == {"FidelityBondCoin", "HashlockContract", "TimelockContract"}
UTXOSpendInfo == EligibleKinds \cup SkippedKinds

\* (ListUnspentResultEntry, UTXOSpendInfo) pairs a caller can hold
CoinPool ==
    { [txid |-> 1, vout |-> 0, amount |-> 50000,     spend_info |-> "SeedCoin"],
      [txid |-> 2, vout |-> 1, amount |-> 150000000, spend_info |-> "SwapCoin"],
      [txid |-> 3, vout |-> 0, amount |-> 1000000,   spend_info |-> "FidelityBondCoin"],
      [txid |-> 4, vout |-> 0, amount |-> 30000,     spend_info |-> "HashlockContract"],
      [txid |-> 5, vout |-> 2, amount |-> 30000,     spend_info |-> "TimelockContract"] }

CoinLists == UNION { [1..n -> CoinPool] : n \in 0..MaxCoins }

\* fee_rate: f64, as the exact fraction num/den sat per vbyte
FeeRates == { [num |-> 0, den |-> 1], [num |-> 1, den |-> 1], [num |-> 5, den |-> 2] }

SendAmount ==
    { [kind |-> "Max", sat |-> 0] } \cup
    { [kind |-> "Amount", sat |-> a] : a \in {0, 49566, 49567, 49892, 49893, 150000000} }

\* an address is known by the networks it is valid for and by its script
AddressPool ==
    { [valid_for |-> v, spk_len |-> 22]
        : v \in { {"Bitcoin"}, {"Testnet", "Signet"}, {"Testnet", "Signet", "Regtest"},
                  {"Testnet"}, {"Signet"} } }
    \cup { [valid_for |-> {"Regtest"}, spk_len |-> 34] }

Destination ==
    { [kind |-> "Wallet", valid_for |-> {}, spk_len |-> 0] } \cup
    { [kind |-> "Address", valid_for |-> a.valid_for, spk_len |-> a.spk_len] : a \in AddressPool }

\* outcomes of the collaborators during one call: the chain-height query, the
\* k-th internal address derivation (0: none fails) and the signer
Envs ==
    { [rpc_ok |-> FALSE, height |-> 0, addr_fail_at |-> 0, sign_ok |-> TRUE],
      [rpc_ok |-> TRUE, height |-> 500000000, addr_fail_at |-> 0, sign_ok |-> TRUE],
      [rpc_ok |-> TRUE, height |-> 840000, addr_fail_at |-> 0, sign_ok |-> TRUE],
      [rpc_ok |-> TRUE, height |-> 840000, addr_fail_at |-> 1, sign_ok |-> TRUE],
      [rpc_ok |-> TRUE, height |-> 840000, addr_fail_at |-> 2, sign_ok |-> TRUE],
      [rpc_ok |-> TRUE, height |-> 840000, addr_fail_at |-> 0, sign_ok |-> FALSE] }

VARIABLES network, internal_index, call, out

vars == <<network, internal_index, call, out>>


(* ----------------------- Amount and its conversions -------------------- *)

\* Amount::to_btc: the value in whole-coin units, as whole coins and the
\* eight-digit fraction
ToBtc(sat) == [whole |-> sat \div SAT_PER_BTC, frac |-> sat % SAT_PER_BTC]

NoBtc == [whole |-> -1, frac |-> -1]

RECURSIVE SumAmounts(_)
SumAmounts(s) == IF s = <<>> THEN 0 ELSE Head(s).amount + SumAmounts(Tail(s))

(* ------------------------- spend_from_wallet filter -------------------- *)

\* the matches! of the filter closure
IsDirectSendKind(info) == info \in {"SeedCoin", "SwapCoin"}

FilterCoins(coins_to_spend) ==
    SelectSeq(coins_to_spend, LAMBDA c : IsDirectSendKind(c.spend_info))

(* ------------------------- spend_coins: the coin loop ------------------ *)

\* a coin loop that also takes fidelity bonds as valid coins
IsValidCoin_WithBond(info) == info \in {"SeedCoin", "SwapCoin", "FidelityBondCoin"}

\* the match arms that push onto valid_coins
IsValidCoin(info) == info \in {"SeedCoin", "SwapCoin"}

\* the witness size each arm adds to total_witness_size
WitnessSize(info) ==
    CASE info = "SeedCoin" -> P2PWPKH_WITNESS_SIZE
      [] info = "SwapCoin" -> P2WSH_MULTISIG_2OF2_WITNESS_SIZE
      [] OTHER -> 0

\* the for loop over coins_to_spend: total_input_value, total_witness_size
\* and valid_coins after the coins seen so far
RECURSIVE CoinLoop(_, _)
CoinLoop(coins_to_spend, acc) ==
    IF coins_to_spend = <<>> THEN acc
    ELSE LET c == Head(coins_to_spend)
         IN CoinLoop(Tail(coins_to_spend),
                IF IsValidCoin(c.spend_info)
                THEN [total_input_value |-> acc.total_input_value + c.amount,
                      total_witness_size |-> acc.total_witness_size + WitnessSize(c.spend_info),
                      valid_coins |-> Append(acc.valid_coins, c)]
                ELSE acc)

CoinLoopStart == [total_input_value |-> 0, total_witness_size |-> 0, valid_coins |-> <<>>]

\* one TxIn per valid coin: its outpoint, Sequence::ZERO, empty witness
TxInputs(valid_coins) ==
    [i \in 1..Len(valid_coins) |->
        [txid |-> valid_coins[i].txid, vout |-> valid_coins[i].vout,
         sequence |-> 0, witness_size |-> 0]]

(* --------------------------- sizes and fees ---------------------------- *)

\* length of a compact-size integer
VarIntLen(n) == IF n < 253 THEN 1 ELSE 3

RECURSIVE OutputsSize(_)
OutputsSize(outs) ==
    IF outs = <<>> THEN 0
    ELSE 8 + VarIntLen(Head(outs).script_pubkey.len) + Head(outs).script_pubkey.len
         + OutputsSize(Tail(outs))

\* Transaction::base_size: version, inputs (outpoint 36, empty script_sig 1,
\* sequence 4), outputs, lock time
BaseSize(tx) ==
    4 + VarIntLen(Len(tx.input)) + 41 * Len(tx.input)
      + VarIntLen(Len(tx.output)) + OutputsSize(tx.output) + 4

\* (base_size * 4 + total_witness_size) / 4
EstimateVsize(base_size, total_witness_size) == (base_size * 4 + total_witness_size) \div 4

\* Amount::from_sat((fee_rate * vsize as f64).ceil() as u64)
Fee(fee_rate, vsize) == (fee_rate.num * vsize + fee_rate.den - 1) \div fee_rate.den

\* ScriptBuf::minimal_non_dust: 3 sat per byte of the output plus the bytes
\* of the input that later spends it (67 for a witness program, 148 otherwise)
MinimalNonDust(spk) ==
    3 * ((IF spk.witness_program THEN 67 ELSE 148) + 8 + VarIntLen(spk.len) + spk.len)

(* ------------------------- destination resolution ---------------------- *)

IsValidForNetwork(a, net) == net \in a.valid_for

\* the exception without its test of the wallet's network
TestnetSignetType_AnyWallet(a, net) ==
    IsValidForNetwork(a, "Testnet") \/ IsValidForNetwork(a, "Signet")

\* the testnet_signet_type exception
TestnetSignetType(a, net) ==
    (IsValidForNetwork(a, "Testnet") \/ IsValidForNetwork(a, "Signet"))
    /\ (net = "Testnet" \/ net = "Signet")

\* an Address destination goes on exactly when the early return is not taken
DestinationAccepted(a, net) ==
    ~(~IsValidForNetwork(a, net) /\ ~TestnetSignetType(a, net))

AddressSpk(a) == [len |-> a.spk_len, witness_program |-> TRUE, internal |-> FALSE, index |-> -1]

(* --------------------------- collaborators ----------------------------- *)

\* Wallet::get_next_internal_addresses(n): the next n addresses of the
\* internal branch; the index advances by n
GetNextInternalAddresses(index, n) ==
    [addresses |-> [i \in 1..n |-> index + i - 1], next_index |-> index + n]

\* a change candidate that reuses the last address instead of deriving one
ChangeCandidate_Reuse(index) ==
    [addresses |-> <<IF index > 0 THEN index - 1 ELSE 0>>, next_index |-> index]

\* the candidate change address: one more internal address
ChangeCandidate(index) == GetNextInternalAddresses(index, 1)

InternalSpk(i) ==
    [len |-> INTERNAL_SPK_LEN, witness_program |-> TRUE, internal |-> TRUE, index |-> i]

\* Wallet::sign_transaction: fills the witness of each input by the spending
\* rule of the coin it spends
SignTransaction(tx, valid_coins) ==
    [tx EXCEPT !.input =
        [i \in 1..Len(tx.input) |->
            [tx.input[i] EXCEPT !.witness_size = WitnessSize(valid_coins[i].spend_info)]]]

RECURSIVE SumWitness(_)
SumWitness(ins) == IF ins = <<>> THEN 0 ELSE Head(ins).witness_size + SumWitness(Tail(ins))

\* the measured virtual size of the signed transaction, the witness-size
\* table being exact
SignedTxVsize(tx) == (BaseSize(tx) * 4 + SumWitness(tx.input)) \div 4

\* the spend-info descriptors handed to the signer
SignerSpendInfos(coins_to_spend) ==
    [i \in 1..Len(coins_to_spend) |->
        [spend_info |-> coins_to_spend[i].spend_info,
         txid |-> coins_to_spend[i].txid, vout |-> coins_to_spend[i].vout]]


(* ------------------------- spend_coins, by stage ----------------------- *)

NoError == [kind |-> "None", available |-> NoBtc, required |-> NoBtc]

Error(kind) == [kind |-> kind, available |-> NoBtc, required |-> NoBtc]

\* the match on destination: the script of the first output, the internal
\* addresses derived for it and the wallet's index afterwards
ResolveDestination(destination, net, index, derive_ok) ==
    IF destination.kind = "Wallet"
    THEN IF derive_ok
         THEN LET got == GetNextInternalAddresses(index, 1)
              IN [error |-> NoError, spk |-> InternalSpk(got.addresses[1]),
                  derived |-> got.addresses, next_index |-> got.next_index]
         ELSE [error |-> Error("AddressDerivation"), spk |-> InternalSpk(index),
               derived |-> <<>>, next_index |-> index]
    ELSE IF DestinationAccepted(destination, net)
         THEN [error |-> NoError, spk |-> AddressSpk(destination),
               derived |-> <<>>, next_index |-> index]
         ELSE [error |-> Error("General"), spk |-> AddressSpk(destination),
               derived |-> <<>>, next_index |-> index]

\* an insufficient-funds test that forgets the fee
IsInsufficientFund_NoFee(a, fee, total_input_value) == a > total_input_value

\* the insufficient-funds test of a fixed-amount send
IsInsufficientFund(a, fee, total_input_value) == a + fee > total_input_value

\* a Max send that does not take the fee off the output
OutputValue_NoFee(send_amount, total_input_value, fee) ==
    IF send_amount.kind = "Max" THEN total_input_value ELSE send_amount.sat

\* the value of the destination output; Amount's subtraction panics below zero
OutputValue(send_amount, total_input_value, fee) ==
    IF send_amount.kind = "Max" THEN total_input_value - fee ELSE send_amount.sat

\* a change decision that also keeps change of exactly the dust value
IncludeChange_AtDust(remaining_wchange, minimal_nondust) ==
    remaining_wchange >= minimal_nondust

\* the change decision
IncludeChange(remaining_wchange, minimal_nondust) == remaining_wchange > minimal_nondust

NoChange(tx, index) ==
    [error |-> NoError, panic |-> FALSE, evaluated |-> FALSE, tx |-> tx,
     derived |-> <<>>, next_index |-> index, vsize_wchange |-> -1, fee_wchange |-> -1,
     remaining_wchange |-> -1, minimal_nondust |-> -1, committed |-> FALSE]

\* the "if let SendAmount::Amount(amount)" block after the output value is set
ChangePolicy(tx, total_input_value, amount, fee_rate, total_witness_size, index, derive_ok) ==
    IF ~derive_ok
    THEN [NoChange(tx, index) EXCEPT !.error = Error("AddressDerivation")]
    ELSE
    LET got == ChangeCandidate(index)
        internal_spk == InternalSpk(got.addresses[1])
        minimal_nondust == MinimalNonDust(internal_spk)
        tx_wchange == [tx EXCEPT !.output =
                          Append(@, [script_pubkey |-> internal_spk, value |-> 0])]
        base_wchange == BaseSize(tx_wchange)
        vsize_wchange == EstimateVsize(base_wchange, total_witness_size)
        fee_wchange == Fee(fee_rate, vsize_wchange)
        remaining_wchange == total_input_value - amount - fee_wchange
        seen == [NoChange(tx, index) EXCEPT
                    !.evaluated = TRUE, !.derived = got.addresses,
                    !.next_index = got.next_index, !.vsize_wchange = vsize_wchange,
                    !.fee_wchange = fee_wchange, !.minimal_nondust = minimal_nondust,
                    !.remaining_wchange = remaining_wchange]
    IN IF remaining_wchange < 0
       THEN [seen EXCEPT !.panic = TRUE]
       ELSE IF IncludeChange(remaining_wchange, minimal_nondust)
            THEN [seen EXCEPT !.committed = TRUE,
                     !.tx = [tx EXCEPT !.output =
                               Append(@, [script_pubkey |-> internal_spk,
                                          value |-> remaining_wchange])]]
            ELSE seen


NoTx == [lock_time |-> 0, input |-> <<>>, output |-> <<>>]

NoOut ==
    [result |-> "None", error |-> NoError, coins_to_spend |-> <<>>, tx |-> NoTx,
     total_input_value |-> 0, total_witness_size |-> 0, valid_coins |-> <<>>,
     vsize |-> -1, fee |-> -1, derived |-> <<>>, change |-> NoChange(NoTx, 0),
     signer_invoked |-> FALSE, signer_infos |-> <<>>, signed_tx_vsize |-> -1,
     asserted_vsize |-> -1,
     index_after |-> 0]

\* Wallet::spend_coins from entry to return: what the caller and the
\* collaborators observe of one call
SpendCoinsResult(net, index, fee_rate, send_amount, destination, coins_to_spend, env) ==
    LET start == [NoOut EXCEPT !.coins_to_spend = coins_to_spend, !.index_after = index,
                               !.change = NoChange(NoTx, index)]
    IN
    IF ~env.rpc_ok THEN [start EXCEPT !.result = "Err", !.error = Error("Rpc")]
    ELSE IF env.height >= LOCK_TIME_THRESHOLD
    THEN [start EXCEPT !.result = "Err", !.error = Error("LockTime")]
    ELSE
    LET loop == CoinLoop(coins_to_spend, CoinLoopStart)
        tx0 == [lock_time |-> env.height, input |-> TxInputs(loop.valid_coins),
                output |-> <<>>]
        dest == ResolveDestination(destination, net, index, env.addr_fail_at # 1)
        s1 == [start EXCEPT !.tx = tx0,
                            !.total_input_value = loop.total_input_value,
                            !.total_witness_size = loop.total_witness_size,
                            !.valid_coins = loop.valid_coins,
                            !.derived = dest.derived,
                            !.index_after = dest.next_index,
                            !.change = NoChange(tx0, dest.next_index)]
    IN
    IF dest.error.kind # "None" THEN [s1 EXCEPT !.result = "Err", !.error = dest.error]
    ELSE
    LET tx1 == [tx0 EXCEPT !.output = <<[script_pubkey |-> dest.spk, value |-> 0]>>]
        base_size == BaseSize(tx1)
        vsize == EstimateVsize(base_size, loop.total_witness_size)
        fee == Fee(fee_rate, vsize)
        s2 == [s1 EXCEPT !.tx = tx1, !.vsize = vsize, !.fee = fee]
        value == OutputValue(send_amount, loop.total_input_value, fee)
    IN
    IF send_amount.kind = "Amount"
       /\ IsInsufficientFund(send_amount.sat, fee, loop.total_input_value)
    THEN [s2 EXCEPT !.result = "Err",
                    !.error = [kind |-> "InsufficientFund",
                               available |-> ToBtc(loop.total_input_value),
                               required |-> ToBtc(send_amount.sat + fee)]]
    ELSE IF value < 0
    THEN [s2 EXCEPT !.result = "Panic", !.error = Error("AmountSubtraction")]
    ELSE
    LET tx2 == [tx1 EXCEPT !.output[1].value = value]
        ch == IF send_amount.kind = "Amount"
              THEN ChangePolicy(tx2, loop.total_input_value, send_amount.sat, fee_rate,
                                loop.total_witness_size, dest.next_index,
                                env.addr_fail_at # Len(dest.derived) + 1)
              ELSE NoChange(tx2, dest.next_index)
        s3 == [s2 EXCEPT !.tx = ch.tx, !.change = ch,
                         !.derived = dest.derived \o ch.derived,
                         !.index_after = ch.next_index]
    IN
    IF ch.error.kind # "None" THEN [s3 EXCEPT !.result = "Err", !.error = ch.error]
    ELSE IF ch.panic
    THEN [s3 EXCEPT !.result = "Panic", !.error = Error("AmountSubtraction")]
    ELSE
    LET s4 == [s3 EXCEPT !.signer_invoked = TRUE,
                         !.signer_infos = SignerSpendInfos(coins_to_spend)]
    IN
    IF ~env.sign_ok THEN [s4 EXCEPT !.result = "Err", !.error = Error("Sign")]
    ELSE
    LET signed == SignTransaction(ch.tx, loop.valid_coins)
        signed_tx_vsize == SignedTxVsize(signed)
        s5 == [s4 EXCEPT !.tx = signed, !.signed_tx_vsize = signed_tx_vsize,
                         !.asserted_vsize = vsize]
    IN
    IF signed_tx_vsize # vsize
    THEN [s5 EXCEPT !.result = "Panic", !.error = Error("VsizeAssert")]
    ELSE [s5 EXCEPT !.result = "Ok"]

(* ------------------------------ the wallet ----------------------------- *)

NoCall ==
    [entry |-> "none", fee_rate |-> [num |-> 0, den |-> 1],
     send_amount |-> [kind |-> "Max", sat |-> 0],
     destination |-> [kind |-> "Wallet", valid_for |-> {}, spk_len |-> 0],
     coins_to_spend |-> <<>>, index_before |-> 0]

Init ==
    /\ network \in Networks
    /\ internal_index = 0
    /\ call = NoCall
    /\ out = NoOut

\* Wallet::spend_from_wallet: filter the coins, then spend_coins
spend_from_wallet ==
    /\ call.entry = "none"
    /\ internal_index < MaxIndex
    /\ \E fee_rate \in FeeRates, send_amount \in SendAmount, destination \in Destination,
          coins_to_spend \in CoinLists, env \in Envs :
        /\ call' = [entry |-> "spend_from_wallet", fee_rate |-> fee_rate,
                    send_amount |-> send_amount, destination |-> destination,
                    coins_to_spend |-> coins_to_spend, index_before |-> internal_index]
        /\ out' = SpendCoinsResult(network, internal_index, fee_rate, send_amount,
                                   destination, FilterCoins(coins_to_spend), env)
    /\ internal_index' = out'.index_after
    /\ UNCHANGED network

\* Wallet::spend_coins called with the caller's list as it is
spend_coins ==
    /\ call.entry = "none"
    /\ internal_index < MaxIndex
    /\ \E fee_rate \in FeeRates, send_amount \in SendAmount, destination \in Destination,
          coins_to_spend \in CoinLists, env \in Envs :
        /\ call' = [entry |-> "spend_coins", fee_rate |-> fee_rate,
                    send_amount |-> send_amount, destination |-> destination,
                    coins_to_spend |-> coins_to_spend, index_before |-> internal_index]
        /\ out' = SpendCoinsResult(network, internal_index, fee_rate, send_amount,
                                   destination, coins_to_spend, env)
    /\ internal_index' = out'.index_after
    /\ UNCHANGED network

\* the caller takes the Result; the wallet is ready for the next call
TakeResult ==
    /\ call.entry # "none"
    /\ call' = NoCall
    /\ out' = NoOut
    /\ UNCHANGED <<network, internal_index>>

Next == spend_from_wallet \/ spend_coins \/ TakeResult

Spec == Init /\ [][Next]_vars


(* ------------------------------ properties ----------------------------- *)

Called == call.entry # "none"

\* the call got past the chain-height query and the lock time
Built == Called /\ out.error.kind \notin {"Rpc", "LockTime"}

\* the call computed the fee of the destination-only structure
Priced == Called /\ out.fee >= 0

Outpoints(s) == [i \in 1..Len(s) |-> <<s[i].txid, s[i].vout>>]

\* the SeedCoin and SwapCoin entries of a coin list, in the list's order
EligibleEntries(coins) == SelectSeq(coins, LAMBDA c : c.spend_info \in EligibleKinds)

EligibleValue(coins) == SumAmounts(EligibleEntries(coins))

\* the fee of the transaction with the destination output alone
DestinationOnlyFee ==
    Fee(call.fee_rate,
        EstimateVsize(BaseSize([out.tx EXCEPT !.output = <<out.tx.output[1]>>]),
                      out.total_witness_size))

\* C1: whatever list is passed to spend_from_wallet or spend_coins, the inputs
\* are the SeedCoin and SwapCoin entries of it, in order and with their
\* multiplicity, and total_input_value is the sum of their values; no
\* FidelityBondCoin, HashlockContract or TimelockContract entry is an input
\* or adds to the total.
C1_OnlyEligibleCoinsSpent ==
    Built =>
        /\ Outpoints(out.tx.input) = Outpoints(EligibleEntries(call.coins_to_spend))
        /\ out.total_input_value = EligibleValue(call.coins_to_spend)
        /\ \A i \in 1..Len(out.tx.input) :
             \A c \in CoinPool :
                (c.txid = out.tx.input[i].txid /\ c.vout = out.tx.input[i].vout)
                    => c.spend_info \notin SkippedKinds

C1_Witness ==
    /\ call.entry = "spend_coins"
    /\ out.result = "Ok"
    /\ Len(call.coins_to_spend) = 2
    /\ call.coins_to_spend[1].spend_info = "FidelityBondCoin"
    /\ call.coins_to_spend[2].spend_info = "SeedCoin"
    /\ Len(out.tx.input) = 1

\* C2: when signing is reached, the virtual size the signed transaction is
\* compared with is the one of the final fee computation of the transaction
\* signed, so a signed fixed-amount send with a committed change output
\* returns the transaction.
C2_AssertedVsizeIsFinal ==
    (Called /\ out.signed_tx_vsize >= 0) =>
        /\ out.asserted_vsize =
              (IF out.change.committed THEN out.change.vsize_wchange ELSE out.vsize)
        /\ out.change.committed => out.result = "Ok"

\* C3: a Max send that returns has exactly one output, of value V - F with V
\* the eligible value and F the fee of the destination-only structure; a Max
\* send never has a change output and derives no change candidate.
C3_MaxSendsEverything ==
    (Called /\ call.send_amount.kind = "Max") =>
        /\ Len(out.tx.output) <= 1
        /\ ~out.change.evaluated
        /\ Len(out.derived) = (IF call.destination.kind = "Wallet" THEN 1 ELSE 0)
              \/ out.result = "Err"
        /\ Len(out.derived) <= 1
        /\ out.result = "Ok" =>
              /\ Len(out.tx.output) = 1
              /\ out.tx.output[1].value
                    = EligibleValue(call.coins_to_spend) - DestinationOnlyFee

C3_Witness ==
    /\ call.send_amount.kind = "Max"
    /\ out.result = "Ok"
    /\ Len(out.tx.input) = 2
    /\ out.fee > 0

C5_ChangeIffAboveDust ==
    (Called /\ out.change.evaluated) =>
        LET candidate == InternalSpk(out.change.derived[1])
            destination == [script_pubkey |-> out.tx.output[1].script_pubkey, value |-> 0]
            trial == [out.tx EXCEPT !.output =
                          <<destination, [script_pubkey |-> candidate, value |-> 0]>>]
            fee_with_change ==
                Fee(call.fee_rate, EstimateVsize(BaseSize(trial), out.total_witness_size))
            remaining == EligibleValue(call.coins_to_spend) - call.send_amount.sat
                            - fee_with_change
        IN /\ out.tx.output[1].value = call.send_amount.sat
           /\ IF remaining > MinimalNonDust(candidate)
              THEN /\ Len(out.tx.output) = 2
                   /\ out.tx.output[2] = [script_pubkey |-> candidate, value |-> remaining]
              ELSE Len(out.tx.output) = 1

C5_Witness ==
    /\ out.change.evaluated
    /\ out.change.remaining_wchange = out.change.minimal_nondust
    /\ out.result = "Ok"
    /\ Len(out.tx.output) = 1

\* C6: an Address destination is accepted when it is valid for the wallet's
\* network, or valid for Testnet or Signet with the wallet on Testnet or
\* Signet; otherwise the call fails with no output built, no internal address
\* consumed and the signer not invoked.
C6_DestinationValidation ==
    (Built /\ call.destination.kind = "Address") =>
        LET v == call.destination.valid_for
            accepted == \/ network \in v
                        \/ /\ v \cap {"Testnet", "Signet"} # {}
                           /\ network \in {"Testnet", "Signet"}
        IN IF accepted
           THEN /\ out.error.kind # "General"
                /\ Len(out.tx.output) >= 1
                /\ out.tx.output[1].script_pubkey = AddressSpk(call.destination)
           ELSE /\ out.result = "Err"
                /\ out.error.kind = "General"
                /\ out.tx.output = <<>>
                /\ out.derived = <<>>
                /\ internal_index = call.index_before
                /\ ~out.signer_invoked

C6_Witness ==
    /\ call.destination.kind = "Address"
    /\ call.destination.valid_for = {"Testnet"}
    /\ network = "Signet"
    /\ out.result = "Ok"

\* C7: internal addresses are consumed and never given back: a fixed-amount
\* send past the insufficient-funds check whose derivations succeed derives
\* one change candidate whether or not the change output is committed; to
\* Destination::Wallet it derives two distinct addresses, the destination
\* first and the candidate second; and after every call the wallet's index
\* has advanced by the number of addresses derived.
C7_AddressesNeverRolledBack ==
    Called =>
        /\ internal_index = call.index_before + Len(out.derived)
        /\ \A i \in 1..Len(out.derived) : out.derived[i] = call.index_before + i - 1
        /\ (/\ Priced
            /\ call.send_amount.kind = "Amount"
            /\ out.error.kind \notin {"InsufficientFund", "AddressDerivation"})
           => /\ out.change.evaluated
              /\ Len(out.change.derived) = 1
              /\ IF call.destination.kind = "Wallet"
                 THEN /\ Len(out.derived) = 2
                      /\ out.derived[1] # out.derived[2]
                      /\ out.tx.output[1].script_pubkey = InternalSpk(out.derived[1])
                      /\ out.change.derived = <<out.derived[2]>>
                 ELSE out.derived = out.change.derived
              /\ out.change.committed =>
                    out.tx.output[2].script_pubkey = InternalSpk(out.change.derived[1])

C7_Witness ==
    /\ call.send_amount.kind = "Amount"
    /\ call.destination.kind = "Wallet"
    /\ out.change.evaluated
    /\ ~out.change.committed
    /\ out.result = "Ok"
    /\ internal_index = call.index_before + 2

\* C8: a call whose eligible value is below the fee (no eligible coin
\* included) ends in an InsufficientFund error for Max and for Amount sends,
\* and never aborts on total_input - fee.
C8_ShortfallIsAnError ==
    (Priced /\ out.total_input_value < out.fee) =>
        /\ out.result = "Err"
        /\ out.error.kind = "InsufficientFund"

\* C9: whenever a fixed-amount send past the insufficient-funds check
\* evaluates total_input - amount - fee_with_change, amount + fee_with_change
\* is within total_input.
C9_ChangeSubtractionInRange ==
    (Called /\ out.change.evaluated) =>
        /\ call.send_amount.sat + out.change.fee_wchange <= out.total_input_value
        /\ out.result # "Panic" \/ out.error.kind # "AmountSubtraction"

\* C10: the spend-info descriptors handed to the signer are as many as the
\* transaction's inputs, and the i-th describes the coin the i-th input
\* spends.
C10_SignerInfosMatchInputs ==
    (Called /\ out.signer_invoked) =>
        /\ Len(out.signer_infos) = Len(out.tx.input)
        /\ \A i \in 1..Len(out.tx.input) :
             /\ i <= Len(out.signer_infos)
             /\ out.signer_infos[i].txid = out.tx.input[i].txid
             /\ out.signer_infos[i].vout = out.tx.input[i].vout
             /\ out.signer_infos[i].spend_info \in EligibleKinds

====
